---- MODULE Spec2Model ----
(***************************************************************************)
(* Model of aipstack/utils/IntFormat.h: MaxIntegerFormatLen, FormatInteger *)
(* and ParseInteger, instantiated at the 8-bit and 16-bit integer types.    *)
(*                                                                         *)
(* Bytes are their unsigned codes 0..255.  A pointer is its offset from    *)
(* the start of the object it points into (out_str, str.ptr).  A string    *)
(* is a sequence; the byte at offset i is element i + 1.                   *)
(*                                                                         *)
(* Two specifications share the parser's actions:                          *)
(*   Spec           ParseInteger<T>, T of 8 bits, on every span of at most *)
(*                  MaxLen bytes over Alphabet                             *)
(*   SpecRoundTrip  FormatInteger<T>, T of 8 or 16 bits, on every value of *)
(*                  T, then ParseInteger<T> on the bytes it wrote          *)
(***************************************************************************)
EXTENDS Integers, Sequences, FiniteSets

VARIABLES
    T,           \* the template argument: [bits, signed]
    \* ---- FormatInteger
    fpc,         \* position in FormatInteger: none, start, loop, sign, reverse, done
    value,       \* argument value
    fIsNegative, \* local isNegative
    uval,        \* local uval
    buf,         \* the caller's buffer at out_str: offset -> byte
    pos,         \* local pos, as an offset from out_str
    fret,        \* returned pointer, as an offset from out_str
    overrun,     \* a write went outside the buffer (undefined behaviour)
    \* ---- ParseInteger
    ppc,         \* position in ParseInteger: idle, start, digit, add, finish, done
    str,         \* argument str: the bytes of the span (str.len = Len(str))
    ptr,         \* local ptr, as an offset from str.ptr
    isNegative,  \* local isNegative
    ulimit,      \* local ulimit
    ulimit_10,   \* local ulimit_10
    uvalue,      \* local uvalue
    digit_val,   \* local digit_val of the current iteration
    out_value,   \* the caller's variable out_value refers to
    ret,         \* return value (meaningful when ppc = "done")
    \* ---- observation of the call (not program state)
    out_before,  \* out_value at the time of the call
    reads,       \* the offsets dereferenced through ptr, in order
    iters        \* number of loop bodies entered

fvars == <<fpc, value, fIsNegative, uval, buf, pos, fret, overrun>>
pvars == <<ppc, str, ptr, isNegative, ulimit, ulimit_10, uvalue, digit_val,
           out_value, ret, out_before, reads, iters>>
vars == <<T, fvars, pvars>>

----------------------------------------------------------------------------
(* Bounds of the model *)

\* longest input span given to ParseInteger in Spec
MaxLen == 4

----------------------------------------------------------------------------
(* Integer types *)

int8_t == [bits |-> 8, signed |-> TRUE]
uint8_t == [bits |-> 8, signed |-> FALSE]

int16_t == [bits |-> 16, signed |-> TRUE]
uint16_t == [bits |-> 16, signed |-> FALSE]

\* the types ParseInteger is given arbitrary input at
Types == {int8_t, uint8_t}

\* the types whose every value is formatted and parsed back
RoundTripTypes == Types \cup {int16_t, uint16_t}

Modulus(t) == 2 ^ t.bits

\* std::numeric_limits<T>::min() / max() behind TypeMin<T> / TypeMax<T>
TypeMin(t) == IF t.signed THEN -(2 ^ (t.bits - 1)) ELSE 0

TypeMax(t) == IF t.signed THEN 2 ^ (t.bits - 1) - 1 ELSE 2 ^ t.bits - 1

Values(t) == TypeMin(t)..TypeMax(t)

\* conversion to UT = std::make_unsigned_t<T>: reduction modulo 2^w
ToUT(t, x) == x % Modulus(t)

\* conversion to T: value preserving when representable, else modulo 2^w
ToT(t, x) ==
    IF ~t.signed THEN x % Modulus(t)
    ELSE LET m == x % Modulus(t)
         IN IF m > TypeMax(t) THEN m - Modulus(t) ELSE m

\* UT(-UT(v)): the magnitude of a negative v, computed in the unsigned type
NegateUT(t, v) == ToUT(t, -ToUT(t, v))

\* a - b on operands of type UT: types narrower than int are promoted to
\* int, where the difference cannot wrap; otherwise it is taken modulo 2^w
SubUT(t, a, b) == IF t.bits < 32 THEN a - b ELSE (a - b) % Modulus(t)

----------------------------------------------------------------------------
(* Characters *)

ChZero == 48
ChMinus == 45

Digits == 48..57

\* bytes the inputs are built from: ' ', '+', '-', '0'..'9', 'a'
Alphabet == {32, 43, 45} \cup Digits \cup {97}

\* UChar(x): conversion to unsigned char
ToUChar(x) == x % 256

----------------------------------------------------------------------------
(* MaxIntegerFormatLen *)

RECURSIVE IntegerFormatLenUnsigned(_)
IntegerFormatLenUnsigned(v) ==
    IF v \div 10 > 0 THEN 1 + IntegerFormatLenUnsigned(v \div 10) ELSE 1

\* faulty variant: the sign character is not counted
MaxIntegerFormatLenBase_NoSign(t) ==
    IF t.signed
    THEN IntegerFormatLenUnsigned(NegateUT(t, TypeMin(t)))
    ELSE IntegerFormatLenUnsigned(TypeMax(t))

MaxIntegerFormatLenBase(t) ==
    IF t.signed
    THEN 1 + IntegerFormatLenUnsigned(NegateUT(t, TypeMin(t)))
    ELSE IntegerFormatLenUnsigned(TypeMax(t))

MaxIntegerFormatLen(t) == MaxIntegerFormatLenBase(t)

----------------------------------------------------------------------------
(* FormatInteger *)

\* *pos++ = ch
WriteBuf(ch) ==
    /\ buf' = IF pos \in DOMAIN buf THEN [buf EXCEPT ![pos] = ch] ELSE buf
    /\ overrun' = (overrun \/ pos \notin DOMAIN buf)
    /\ pos' = pos + 1

\* faulty variant: the reversal is left out
Reversed_Missing(b, n) == b

\* std::reverse(out_str, pos)
Reversed(b, n) ==
    [i \in DOMAIN b |-> IF i < n /\ (n - 1 - i) \in DOMAIN b THEN b[n - 1 - i] ELSE b[i]]

\* entry: isNegative, the magnitude uval, pos = out_str
FormatStart ==
    /\ fpc = "start"
    /\ fIsNegative' = (value < 0)
    /\ uval' = IF value < 0 THEN NegateUT(T, value) ELSE ToUT(T, value)
    /\ pos' = 0
    /\ fpc' = "loop"
    /\ UNCHANGED <<T, value, buf, fret, overrun, pvars>>

\* one iteration of the do-while loop
FormatDigit ==
    /\ fpc = "loop"
    /\ WriteBuf(ChZero + (uval % 10))
    /\ uval' = uval \div 10
    /\ fpc' = IF uval' > 0 THEN "loop" ELSE "sign"
    /\ UNCHANGED <<T, value, fIsNegative, fret, pvars>>

FormatSign ==
    /\ fpc = "sign"
    /\ IF fIsNegative
       THEN WriteBuf(ChMinus)
       ELSE UNCHANGED <<buf, overrun, pos>>
    /\ fpc' = "reverse"
    /\ UNCHANGED <<T, value, fIsNegative, uval, fret, pvars>>

FormatReverse ==
    /\ fpc = "reverse"
    /\ buf' = Reversed(buf, pos)
    /\ fret' = pos
    /\ fpc' = "done"
    /\ UNCHANGED <<T, value, fIsNegative, uval, pos, overrun, pvars>>

\* the bytes in [out_str, returned pointer)
Written == [i \in 1..fret |-> buf[i - 1]]

----------------------------------------------------------------------------
(* ParseInteger *)

\* *ptr: inside the span the byte there; outside it, whatever memory holds
Deref(p) == IF p < Len(str) THEN {str[p + 1]} ELSE Alphabet

\* faulty variant: the limit of a negative input is TypeMax<T> too
Limit_Symmetric(t, neg) == ToUT(t, TypeMax(t))

\* ulimit = isNegative ? UT(-UT(TypeMin<T>)) : TypeMax<T>
Limit(t, neg) == IF neg THEN NegateUT(t, TypeMin(t)) ELSE ToUT(t, TypeMax(t))

\* faulty variant: the difference is not reduced to unsigned char
DigitVal_Signed(ch) == ch - ChZero

\* digit_val = UChar(ch) - UChar('0'), stored in a UChar
DigitVal(ch) == ToUChar(ToUChar(ch) - ToUChar(ChZero))

\* faulty variant: compares with the limit, not with a tenth of it
ScaleOverflows_Limit(u, lim10) == u > lim10 * 10

\* uvalue > ulimit_10
ScaleOverflows(u, lim10) == u > lim10

\* faulty variant: compares the digit with the limit itself
AddOverflows_NoSub(t, d, lim, u) == d > lim

\* digit_val > ulimit - uvalue
AddOverflows(t, d, lim, u) == d > SubUT(t, lim, u)

\* faulty variant: the loop runs one byte too far
LoopAgain_OffByOne(p, len) == p /= len + 1

\* while (ptr != end)
LoopAgain(p, len) == p /= len

\* faulty variant: -T(uvalue), the magnitude cast to T before the negation
NegValue_Direct(t, u) ==
    LET cast == ToT(t, u)
    IN [dec |-> u, cast |-> cast, neg |-> -cast, res |-> -cast]

\* -T(uvalue - 1) - 1 and its intermediates
NegValue(t, u) ==
    LET dec == SubUT(t, u, 1)
        cast == ToT(t, dec)
        neg == -cast
    IN [dec |-> dec, cast |-> cast, neg |-> neg, res |-> neg - 1]

\* faulty variant: no arm for a zero accumulator
FinalBranch_NoZero(neg, u) == IF neg THEN "neg_formula" ELSE "nonneg"

\* which arm of the conversion after the loop is taken
FinalBranch(neg, u) ==
    IF neg THEN (IF u = 0 THEN "neg_zero" ELSE "neg_formula") ELSE "nonneg"

\* the conversion after the loop
FinalValue(t, neg, u) ==
    CASE FinalBranch(neg, u) = "neg_zero" -> ToT(t, -u)
      [] FinalBranch(neg, u) = "neg_formula" -> ToT(t, NegValue(t, u).res)
      [] OTHER -> ToT(t, u)

\* faulty variant: the accumulator is stored before a failure is reported
ReturnFalse_Stores ==
    /\ ppc' = "done"
    /\ ret' = FALSE
    /\ out_value' = ToT(T, uvalue)

\* return false
ReturnFalse ==
    /\ ppc' = "done"
    /\ ret' = FALSE
    /\ out_value' = out_value

\* from entry to the loop: the empty check, the sign, the limits
ParseStart ==
    /\ ppc = "start"
    /\ IF ptr = Len(str)
       THEN /\ ReturnFalse
            /\ UNCHANGED <<ptr, isNegative, ulimit, ulimit_10, uvalue, reads>>
       ELSE \E ch \in (IF T.signed THEN Deref(ptr) ELSE {ChZero}) :
            \* unsigned T: *ptr is not evaluated and isNegative stays false
            LET neg == T.signed /\ ch = ChMinus
                p == IF neg THEN ptr + 1 ELSE ptr
            IN /\ reads' = IF T.signed THEN Append(reads, ptr) ELSE reads
               /\ ptr' = p
               /\ isNegative' = neg
               /\ IF neg /\ p = Len(str)
                  THEN /\ ReturnFalse
                       /\ UNCHANGED <<ulimit, ulimit_10, uvalue>>
                  ELSE /\ ulimit' = Limit(T, neg)
                       /\ ulimit_10' = ulimit' \div 10
                       /\ uvalue' = 0
                       /\ ppc' = "digit"
                       /\ UNCHANGED <<ret, out_value>>
    /\ UNCHANGED <<T, fvars, str, digit_val, out_before, iters>>

\* first half of the loop body: read, digit test, scaling
ParseDigit ==
    /\ ppc = "digit"
    /\ \E ch \in Deref(ptr) :
         /\ reads' = Append(reads, ptr)
         /\ ptr' = ptr + 1
         /\ iters' = iters + 1
         /\ digit_val' = DigitVal(ch)
         /\ IF digit_val' > 9
            THEN ReturnFalse /\ UNCHANGED uvalue
            ELSE IF ScaleOverflows(uvalue, ulimit_10)
            THEN ReturnFalse /\ UNCHANGED uvalue
            ELSE /\ uvalue' = ToUT(T, uvalue * 10)
                 /\ ppc' = "add"
                 /\ UNCHANGED <<ret, out_value>>
    /\ UNCHANGED <<T, fvars, str, isNegative, ulimit, ulimit_10, out_before>>

\* second half of the loop body: the addition, and the loop condition
ParseAdd ==
    /\ ppc = "add"
    /\ IF AddOverflows(T, digit_val, ulimit, uvalue)
       THEN ReturnFalse /\ UNCHANGED uvalue
       ELSE /\ uvalue' = ToUT(T, uvalue + digit_val)
            /\ ppc' = IF LoopAgain(ptr, Len(str)) THEN "digit" ELSE "finish"
            /\ UNCHANGED <<ret, out_value>>
    /\ UNCHANGED <<T, fvars, str, ptr, isNegative, ulimit, ulimit_10, digit_val,
                   out_before, reads, iters>>

\* the conversion to T, the store to out_value, return true
ParseFinish ==
    /\ ppc = "finish"
    /\ out_value' = FinalValue(T, isNegative, uvalue)
    /\ ppc' = "done"
    /\ ret' = TRUE
    /\ UNCHANGED <<T, fvars, str, ptr, isNegative, ulimit, ulimit_10, uvalue,
                   digit_val, out_before, reads, iters>>

----------------------------------------------------------------------------
(* Callers *)

\* the values out_value may hold before the call
OutInit == {42}

FormatIdle ==
    /\ fpc = "none"
    /\ value = 0
    /\ fIsNegative = FALSE
    /\ uval = 0
    /\ buf = <<>>
    /\ pos = 0
    /\ fret = 0
    /\ overrun = FALSE

ParseLocalsInit ==
    /\ ptr = 0
    /\ isNegative = FALSE
    /\ ulimit = 0
    /\ ulimit_10 = 0
    /\ uvalue = 0
    /\ digit_val = 0
    /\ ret = FALSE
    /\ reads = <<>>
    /\ iters = 0

\* a call ParseInteger<T>(str, out_value), str any span of at most MaxLen bytes
Init ==
    /\ T \in Types
    /\ FormatIdle
    /\ \E n \in 0..MaxLen : str \in [1..n -> Alphabet]
    /\ out_value \in OutInit
    /\ out_before = out_value
    /\ ppc = "start"
    /\ ParseLocalsInit

Next == ParseStart \/ ParseDigit \/ ParseAdd \/ ParseFinish

Spec == Init /\ [][Next]_vars

\* a call FormatInteger<T>(out_str, value) with MaxIntegerFormatLen<T> bytes
\* at out_str
InitRoundTrip ==
    /\ T \in RoundTripTypes
    /\ value \in Values(T)
    /\ fpc = "start"
    /\ fIsNegative = FALSE
    /\ uval = 0
    /\ buf = [i \in 0..(MaxIntegerFormatLen(T) - 1) |-> 0]
    /\ pos = 0
    /\ fret = 0
    /\ overrun = FALSE
    /\ str = <<>>
    /\ out_value \in OutInit
    /\ out_before = out_value
    /\ ppc = "idle"
    /\ ParseLocalsInit

\* ParseInteger<T>(MemRef(out_str, end - out_str), out_value) on the result
RoundTripCall ==
    /\ fpc = "done"
    /\ ppc = "idle"
    /\ ~overrun
    /\ str' = Written
    /\ ppc' = "start"
    /\ UNCHANGED <<T, fvars, ptr, isNegative, ulimit, ulimit_10, uvalue, digit_val,
                   out_value, ret, out_before, reads, iters>>

NextRoundTrip ==
    \/ FormatStart
    \/ FormatDigit
    \/ FormatSign
    \/ FormatReverse
    \/ RoundTripCall
    \/ ParseStart
    \/ ParseDigit
    \/ ParseAdd
    \/ ParseFinish

SpecRoundTrip == InitRoundTrip /\ [][NextRoundTrip]_vars

----------------------------------------------------------------------------
(* Decimal notation, defined independently of the code *)

IsDigit(b) == b \in Digits

\* the number the first n bytes of ds denote, most significant first
RECURSIVE DecValueUpTo(_, _)
DecValueUpTo(ds, n) ==
    IF n = 0 THEN 0 ELSE 10 * DecValueUpTo(ds, n - 1) + (ds[n] - ChZero)

\* the number a sequence of digit bytes denotes
DecValue(ds) == DecValueUpTo(ds, Len(ds))

\* the digits of n >= 0 without leading zeros
RECURSIVE DecimalDigits(_)
DecimalDigits(n) ==
    IF n < 10 THEN <<ChZero + n>>
    ELSE Append(DecimalDigits(n \div 10), ChZero + (n % 10))

\* the canonical decimal text of v
DecimalText(v) ==
    IF v < 0 THEN <<ChMinus>> \o DecimalDigits(-v) ELSE DecimalDigits(v)

HasSign(t, s) == t.signed /\ s /= <<>> /\ s[1] = ChMinus

DigitsOf(t, s) == IF HasSign(t, s) THEN Tail(s) ELSE s

\* an optional '-' (signed T only) followed by one or more decimal digits
WellFormed(t, s) ==
    LET ds == DigitsOf(t, s)
    IN /\ ds /= <<>>
       /\ \A i \in 1..Len(ds) : IsDigit(ds[i])

\* the integer a well-formed text denotes
Denotes(t, s) ==
    IF HasSign(t, s) THEN -DecValue(DigitsOf(t, s)) ELSE DecValue(DigitsOf(t, s))

\* the texts ParseInteger<T> is to accept
Acceptable(t, s) == WellFormed(t, s) /\ Denotes(t, s) \in Values(t)

\* the beginnings of a text that do not yet decide its rejection
ViablePrefix(t, s) ==
    s = <<>> \/ (t.signed /\ s = <<ChMinus>>) \/ Acceptable(t, s)

Prefix(s, n) == SubSeq(s, 1, n)

Returned(r) == ppc = "done" /\ ret = r

----------------------------------------------------------------------------
(* Properties *)

Malformed(t, s) ==
    \/ s = <<>>
    \/ s = <<ChMinus>>
    \/ \E i \in 1..Len(s) :
         /\ ~IsDigit(s[i])
         /\ ~(i = 1 /\ s[i] = ChMinus /\ t.signed)

C4_FailureKeepsOut ==
    (ppc /= "done" \/ ~ret) => out_value = out_before

\* "-129": the failure is found at the last digit, the accumulator is 120
C4_Witness ==
    /\ T = int8_t
    /\ str = <<45, 49, 50, 57>>
    /\ Returned(FALSE)
    /\ uvalue = 120
    /\ out_value = out_before

\* the value whose text is the longest of T
Hardest(t) == IF t.signed THEN TypeMin(t) ELSE TypeMax(t)

\* C5: tight length bound (SpecRoundTrip).  FormatInteger<T> never moves
\* pos past out_str + MaxIntegerFormatLen<T> and never writes outside these
\* bytes; TypeMin<T> (signed) and TypeMax<T> (unsigned) fill them all.
C5_LengthBound ==
    LET m == MaxIntegerFormatLen(T)
    IN /\ pos <= m
       /\ fret <= m
       /\ ~overrun
       /\ (fpc = "done" /\ value = Hardest(T)) => fret = m
       /\ T = int8_t => m = 4
       /\ T = uint8_t => m = 3
       /\ T = int16_t => m = 6
       /\ T = uint16_t => m = 5

\* before the reversal, with the sign of -128 just written
C5_Witness ==
    /\ T = int8_t
    /\ value = TypeMin(T)
    /\ fpc = "reverse"
    /\ pos = MaxIntegerFormatLen(T)

\* C6: canonical output (SpecRoundTrip).  When FormatInteger<T> returns, the
\* bytes in [out_str, returned pointer) are a '-' exactly for a negative value,
\* then the digits of the magnitude, most significant first, without a
\* leading zero unless the value is 0, whose text is "0".
C6_Canonical ==
    (fpc = "done" /\ ppc = "idle") =>
        LET w == Written
            ds == IF value < 0 THEN Tail(w) ELSE w
        IN /\ w /= <<>>
           /\ (w[1] = ChMinus) <=> (value < 0)
           /\ ds /= <<>>
           /\ \A i \in 1..Len(ds) : IsDigit(ds[i])
           /\ DecValue(ds) = (IF value < 0 THEN -value ELSE value)
           /\ Len(ds) > 1 => ds[1] /= ChZero
           /\ value = 0 => w = <<ChZero>>
           /\ w = DecimalText(value)
           /\ fret = Len(DecimalText(value))
           /\ (T = int8_t /\ value = -128) => w = <<45, 49, 50, 56>>

C6_Witness ==
    /\ T = int8_t
    /\ value = -128
    /\ fpc = "done"
    /\ ppc = "idle"
    /\ fret = 4
    /\ Written = <<45, 49, 50, 56>>

\* '-' followed by one or more '0'
NegativeZero(s) ==
    /\ Len(s) >= 2
    /\ s[1] = ChMinus
    /\ \A i \in 2..Len(s) : s[i] = ChZero

ScaleStep == ppc = "digit" /\ ppc' = "add"

\* a step of ParseAdd that adds the digit
AddStep == ppc = "add" /\ ppc' \in {"digit", "finish"}

\* C8: accumulator invariant (Spec).  uvalue never exceeds ulimit, which
\* is TypeMax<T> or, for a negative input, the magnitude of TypeMin<T>;
\* uvalue is scaled only when at most ulimit / 10 and a digit is added only
\* when at most ulimit - uvalue, so both results are the exact product and
\* sum, not their residues modulo 2^w.
C8_AccumulatorBounded ==
    /\ [](uvalue <= ulimit)
    /\ [](ppc \in {"digit", "add", "finish"} =>
            /\ ulimit = (IF isNegative THEN -TypeMin(T) ELSE TypeMax(T))
            /\ ulimit_10 = ulimit \div 10)
    /\ [][ScaleStep => (uvalue <= ulimit \div 10 /\ uvalue' = uvalue * 10)]_vars
    /\ [][AddStep => (digit_val <= ulimit - uvalue
                      /\ uvalue' = uvalue + digit_val)]_vars
    /\ [][(uvalue' /= uvalue) => (ScaleStep \/ AddStep)]_vars

\* "0255" for the unsigned type: the accumulator has reached the limit
C8_Witness ==
    /\ T = uint8_t
    /\ str = <<48, 50, 53, 53>>
    /\ ppc = "finish"
    /\ uvalue = ulimit
    /\ iters = 4

\* C9: no signed overflow (SpecRoundTrip).  FormatInteger<T> enters its
\* loop with the magnitude of the value, TypeMin<T> included; and when
\* ParseInteger<T> converts a negative input with accumulator a /= 0, then
\* a - 1, its cast to T, the negation and the decrement all lie in
\* [TypeMin<T>, TypeMax<T>], and the result is -a; no value above TypeMax<T>
\* is cast to T.
C9_NoSignedOverflow ==
    /\ (fpc = "loop" /\ pos = 0) =>
          /\ uval = (IF value < 0 THEN -value ELSE value)
          /\ uval \in 0..(Modulus(T) - 1)
    /\ (ppc = "finish" /\ FinalBranch(isNegative, uvalue) = "neg_formula") =>
          LET r == NegValue(T, uvalue)
          IN /\ uvalue \in 1..(-TypeMin(T))
             /\ r.dec \in 0..TypeMax(T)
             /\ r.cast = uvalue - 1
             /\ r.neg \in Values(T)
             /\ r.res \in Values(T)
             /\ r.res = -uvalue
    /\ (ppc = "finish" /\ FinalBranch(isNegative, uvalue) = "nonneg") =>
          uvalue <= TypeMax(T)
    /\ (ppc = "done" /\ ret /\ isNegative) => out_value = -uvalue

\* the text of TypeMin<T> parsed back: the accumulator is its magnitude
C9_Witness ==
    /\ T = int8_t
    /\ value = TypeMin(T)
    /\ ppc = "finish"
    /\ isNegative
    /\ uvalue = 128

\* the reads stay inside the span, and the loop body runs at most len times
ReadsInside ==
    /\ \A i \in 1..Len(reads) : reads[i] \in 0..(Len(str) - 1)
    /\ iters <= Len(str)
    /\ ptr <= Len(str)

\* a failing call stops at the first byte that decides the rejection, and a
\* successful call has read the whole span
StopsAtFirstOffence ==
    /\ (Returned(FALSE) /\ reads = <<>>) => str = <<>>
    /\ (Returned(FALSE) /\ reads /= <<>>) =>
          LET k == reads[Len(reads)]
          IN /\ ViablePrefix(T, Prefix(str, k))
             /\ \/ ~ViablePrefix(T, Prefix(str, k + 1))
                \/ (k + 1 = Len(str) /\ str[k + 1] = ChMinus)
    /\ Returned(TRUE) => {reads[i] : i \in 1..Len(reads)} = 0..(Len(str) - 1)

\* C10 as stated (Spec): each read is at a higher offset than the one
\* before it, so the offsets strictly increase and no byte is read twice.
C10_SinglePassStrict ==
    /\ ReadsInside
    /\ \A i \in 1..(Len(reads) - 1) : reads[i] < reads[i + 1]
    /\ StopsAtFirstOffence

\* C10: single bounded pass (Spec).  ParseInteger<T> reads only offsets
\* 0..len-1, each read at the offset of the one before it or higher; only
\* the first two reads can be of the same byte, offset 0, read by the sign
\* test and then by the loop when T is signed and the byte is not '-';
\* the loop body runs at most len times, and a failing call reads nothing
\* after the first offending byte.
C10_SinglePass ==
    /\ ReadsInside
    /\ \A i \in 1..(Len(reads) - 1) :
         /\ reads[i] <= reads[i + 1]
         /\ reads[i] = reads[i + 1] =>
               /\ T.signed
               /\ i = 1
               /\ reads[i] = 0
               /\ str[1] /= ChMinus
    /\ StopsAtFirstOffence

\* "1a5" for the signed type: offset 0 read twice, offset 2 never
C10_Witness ==
    /\ T = int8_t
    /\ str = <<49, 97, 53>>
    /\ Returned(FALSE)
    /\ reads = <<0, 0, 1>>
    /\ iters = 2

====
